---- MODULE Spec2Model ----
(***************************************************************************)
(* Propositional sentences (Decision_making.py): the Sentence class tree,  *)
(* evaluate / symbols / formula, and model_check with its inner check_all  *)
(* recursion run as an explicit call stack over a heap of set and dict     *)
(* objects.                                                                *)
(*                                                                         *)
(* A rendering is a sequence of one-character strings, the three non-ASCII *)
(* characters written by code point; a symbol's name is a string, chars    *)
(* gives its characters.                                                   *)
(* A call's outcome is a record: exc = "none" and the returned value, or   *)
(* exc = the exception raised.                                             *)
(***************************************************************************)
EXTENDS Integers, Sequences, FiniteSets, TLC

\* ------------------------------------------------------------ bounds
\* And / Or of the one-level sentence universe take 0..MaxArity children.
MaxArity == 2

\* ------------------------------------------------------------ characters
NotSign == "U+00AC"
AndSign == "U+2227"
OrSign == "U+2228"

Letters ==
  {"A", "B", "C", "D", "E", "F", "G", "H", "I", "J", "K", "L", "M",
   "N", "O", "P", "Q", "R", "S", "T", "U", "V", "W", "X", "Y", "Z",
   "a", "b", "c", "d", "e", "f", "g", "h", "i", "j", "k", "l", "m",
   "n", "o", "p", "q", "r", "s", "t", "u", "v", "w", "x", "y", "z"}

\* The characters of the names in use.
chars(name) ==
  CASE name = "A" -> <<"A">>
    [] name = "B" -> <<"B">>
    [] name = "C1" -> <<"C", "1">>
    [] name = "Rain" -> <<"R", "a", "i", "n">>
    [] name = "HeavyTraffic" -> <<"H", "e", "a", "v", "y", "T", "r", "a", "f", "f", "i", "c">>
    [] name = "EarlyMeeting" -> <<"E", "a", "r", "l", "y", "M", "e", "e", "t", "i", "n", "g">>
    [] name = "Strike" -> <<"S", "t", "r", "i", "k", "e">>
    [] name = "Appointment" -> <<"A", "p", "p", "o", "i", "n", "t", "m", "e", "n", "t">>
    [] name = "RoadConstruction" -> <<"R", "o", "a", "d", "C", "o", "n", "s", "t", "r", "u", "c", "t", "i", "o", "n">>
    [] name = "WorkFromHome" -> <<"W", "o", "r", "k", "F", "r", "o", "m", "H", "o", "m", "e">>
    [] name = "Drive" -> <<"D", "r", "i", "v", "e">>
    [] name = "PublicTransport" -> <<"P", "u", "b", "l", "i", "c", "T", "r", "a", "n", "s", "p", "o", "r", "t">>

\* str.isalpha(): at least one character, all of them alphabetic.
isalpha(s) == Len(s) > 0 /\ \A i \in 1..Len(s) : s[i] \in Letters

\* ------------------------------------------------------------ outcomes
NoExc == "none"
TypeError == "TypeError"
NothingToEvaluate == "Exception: nothing to evaluate"
NotInModel == "Exception: variable not in model"

Return(v) == [exc |-> NoExc, val |-> v]
RaiseBool(e) == [exc |-> e, val |-> FALSE]
RaiseSet(e) == [exc |-> e, val |-> {}]
Raised(r) == r.exc # NoExc

\* ------------------------------------------------------------ sentences
\* One record shape for the six classes: tag is the class, name the
\* Symbol's name, args the operand(s) in order.
Sentence == [tag |-> "Sentence", name |-> "", args |-> <<>>]
Symbol(n) == [tag |-> "Symbol", name |-> n, args |-> <<>>]
Not(operand) == [tag |-> "Not", name |-> "", args |-> <<operand>>]
And(conjuncts) == [tag |-> "And", name |-> "", args |-> conjuncts]
Or(disjuncts) == [tag |-> "Or", name |-> "", args |-> disjuncts]
Implication(antecedent, consequent) ==
  [tag |-> "Implication", name |-> "", args |-> <<antecedent, consequent>>]

\* ------------------------------------------------------------ evaluate
RECURSIVE evaluate(_, _), evalAll(_, _), evalAny(_, _)

\* evalAll with the empty conjunction false.
evalAllEmptyFalse(conjuncts, model) ==
  IF conjuncts = <<>> THEN Return(FALSE)
  ELSE LET r == evaluate(Head(conjuncts), model)
       IN IF Raised(r) THEN r
          ELSE IF ~r.val THEN Return(FALSE)
          ELSE evalAll(Tail(conjuncts), model)

\* all(c.evaluate(model) for c in conjuncts): stops at the first false
\* conjunct, an exception of a conjunct propagates.
evalAll(conjuncts, model) ==
  IF conjuncts = <<>> THEN Return(TRUE)
  ELSE LET r == evaluate(Head(conjuncts), model)
       IN IF Raised(r) THEN r
          ELSE IF ~r.val THEN Return(FALSE)
          ELSE evalAll(Tail(conjuncts), model)

\* any(d.evaluate(model) for d in disjuncts): stops at the first true one.
evalAny(disjuncts, model) ==
  IF disjuncts = <<>> THEN Return(FALSE)
  ELSE LET r == evaluate(Head(disjuncts), model)
       IN IF Raised(r) THEN r
          ELSE IF r.val THEN Return(TRUE)
          ELSE evalAny(Tail(disjuncts), model)

SymbolEvaluate(s, model) ==
  IF s.name \in DOMAIN model THEN Return(model[s.name])
  ELSE RaiseBool(NotInModel)

NotEvaluate(s, model) ==
  LET r == evaluate(s.args[1], model)
  IN IF Raised(r) THEN r ELSE Return(~r.val)

\* ImplicationEvaluate as `antecedent and consequent`.
ImplicationEvaluateAnd(s, model) ==
  LET a == evaluate(s.args[1], model)
  IN IF Raised(a) THEN a
     ELSE IF ~a.val THEN Return(FALSE)
     ELSE evaluate(s.args[2], model)

ImplicationEvaluate(s, model) ==
  LET a == evaluate(s.args[1], model)
  IN IF Raised(a) THEN a
     ELSE IF ~a.val THEN Return(TRUE)
     ELSE evaluate(s.args[2], model)

evaluate(s, model) ==
  CASE s.tag = "Sentence" -> RaiseBool(NothingToEvaluate)
    [] s.tag = "Symbol" -> SymbolEvaluate(s, model)
    [] s.tag = "Not" -> NotEvaluate(s, model)
    [] s.tag = "And" -> evalAll(s.args, model)
    [] s.tag = "Or" -> evalAny(s.args, model)
    [] s.tag = "Implication" -> ImplicationEvaluate(s, model)

\* ------------------------------------------------------------ symbols
RECURSIVE symbols(_), symbolsList(_)

\* [c.symbols() for c in children]: the outcomes in order; the first
\* exception ends the comprehension.
symbolsList(children) ==
  IF children = <<>> THEN [exc |-> NoExc, val |-> <<>>]
  ELSE LET h == symbols(Head(children))
       IN IF Raised(h) THEN [exc |-> h.exc, val |-> <<>>]
          ELSE LET t == symbolsList(Tail(children))
               IN IF Raised(t) THEN t
                  ELSE [exc |-> NoExc, val |-> <<h.val>> \o t.val]

\* set.union(*sets): the unbound method needs at least one argument.
setUnion(sets) ==
  IF sets = <<>> THEN RaiseSet(TypeError)
  ELSE Return(UNION {sets[i] : i \in 1..Len(sets)})

\* And.symbols / Or.symbols / Implication.symbols
unionOfChildren(children) ==
  LET l == symbolsList(children)
  IN IF Raised(l) THEN RaiseSet(l.exc) ELSE setUnion(l.val)

SentenceSymbols == Return({})

symbols(s) ==
  CASE s.tag = "Sentence" -> SentenceSymbols
    [] s.tag = "Symbol" -> Return({s.name})
    [] s.tag = "Not" -> symbols(s.args[1])
    [] s.tag = "And" -> unionOfChildren(s.args)
    [] s.tag = "Or" -> unionOfChildren(s.args)
    [] s.tag = "Implication" -> unionOfChildren(s.args)

\* ------------------------------------------------------------ formula
RECURSIVE balancedFrom(_, _, _)
\* The loop of balanced(s) from position i with the running count.
balancedFrom(s, i, count) ==
  IF i > Len(s) THEN count = 0
  ELSE IF s[i] = "(" THEN balancedFrom(s, i + 1, count + 1)
  ELSE IF s[i] = ")" THEN
         IF count <= 0 THEN FALSE ELSE balancedFrom(s, i + 1, count - 1)
  ELSE balancedFrom(s, i + 1, count)

balanced(s) == balancedFrom(s, 1, 0)

\* The test of parenthesize: s is returned as it is.
keepsAsIs(s) ==
  \/ Len(s) = 0
  \/ isalpha(s)
  \/ /\ s[1] = "("
     /\ s[Len(s)] = ")"
     /\ balanced(SubSeq(s, 2, Len(s) - 1))

parenthesize(s) == IF keepsAsIs(s) THEN s ELSE <<"(">> \o s \o <<")">>

RECURSIVE join(_, _)
\* sep.join(parts)
join(sep, parts) ==
  IF parts = <<>> THEN <<>>
  ELSE IF Len(parts) = 1 THEN parts[1]
  ELSE parts[1] \o sep \o join(sep, Tail(parts))

AndSep == <<" ", AndSign, " ">>
OrSep == <<" ", OrSign, " ", " ">>
ImpliesSep == <<" ", "=", ">", " ">>

SentenceFormula == <<>>

RECURSIVE formula(_)
formula(s) ==
  CASE s.tag = "Sentence" -> SentenceFormula
    [] s.tag = "Symbol" -> chars(s.name)
    [] s.tag = "Not" -> <<NotSign>> \o parenthesize(formula(s.args[1]))
    [] s.tag = "And" ->
         IF Len(s.args) = 1 THEN formula(s.args[1])
         ELSE join(AndSep,
                   [i \in 1..Len(s.args) |-> parenthesize(formula(s.args[i]))])
    [] s.tag = "Or" ->
         IF Len(s.args) = 1 THEN formula(s.args[1])
         ELSE join(OrSep,
                   [i \in 1..Len(s.args) |-> parenthesize(formula(s.args[i]))])
    [] s.tag = "Implication" ->
         parenthesize(formula(s.args[1])) \o ImpliesSep
           \o parenthesize(formula(s.args[2]))

\* ------------------------------------------------------------ state
VARIABLES
  pc,         \* "idle", "returned", "check_all" (inside model_check),
              \* "done", "raised"
  op,         \* the public operation called last
  arg,        \* its sentence argument (evaluate / formula / symbols)
  argModel,   \* its model argument: evaluate's, or perform_model_check's
  out,        \* its outcome
  knowledge,  \* perform_model_check: the knowledge base
  queries,    \* perform_model_check: the queries, in call order
  results,    \* the values the completed model_check calls returned
  stack,      \* the check_all activation records, innermost last
  sets,       \* heap of set objects; a reference is an index
  dicts,      \* heap of dict objects; a reference is an index
  ret         \* outcome of the check_all call that returned last

vars == <<pc, op, arg, argModel, out, knowledge, queries, results,
          stack, sets, dicts, ret>>

\* dict() and d[p] = v
EmptyDict == [n \in {} |-> FALSE]
DictSet(d, p, v) == [n \in DOMAIN d \cup {p} |-> IF n = p THEN v ELSE d[n]]

\* copy as a second reference to the same object.
copyAlias(heap, ref) == [heap |-> heap, ref |-> ref]

\* obj.copy(): a new object with the same contents; heap and reference.
copy(heap, ref) == [heap |-> Append(heap, heap[ref]), ref |-> Len(heap) + 1]

\* An activation of check_all(knowledge, query, symbols, model).  symbols
\* and model are the references received; remaining, p, model_true and
\* model_false are the locals (0 / "" until assigned).  symbols0 and
\* model0 record the contents received, trueSymbols and trueModel the
\* contents passed to the first recursive call; setsBase and dictsBase are
\* the heap sizes at entry (the locals die with the activation).
Frame(symRef, modelRef, symVal, modelVal, sBase, dBase) ==
  [symbols |-> symRef, model |-> modelRef, at |-> "start",
   remaining |-> 0, p |-> "", model_true |-> 0, model_false |-> 0,
   symbols0 |-> symVal, model0 |-> modelVal,
   trueSymbols |-> {}, trueModel |-> EmptyDict,
   setsBase |-> sBase, dictsBase |-> dBase]

Top == stack[Len(stack)]
Caller == SubSeq(stack, 1, Len(stack) - 1)
Query == queries[Len(results) + 1]

Init ==
  /\ pc = "idle"
  /\ op = "none"
  /\ arg = Sentence
  /\ argModel = EmptyDict
  /\ out = Return(FALSE)
  /\ knowledge = Sentence
  /\ queries = <<>>
  /\ results = <<>>
  /\ stack = <<>>
  /\ sets = <<>>
  /\ dicts = <<>>
  /\ ret = Return(TRUE)

\* ------------------------------------------------------------ model_check
\* modelCheckSymbols without the query's symbols.
modelCheckSymbolsOfKnowledge(kb, q) == symbols(kb)

\* symbols = set.union(knowledge.symbols(), query.symbols())
modelCheckSymbols(kb, q) == unionOfChildren(<<kb, q>>)

\* model_check(kb, q) up to its call of check_all: the symbol set (an
\* exception of symbols() leaves model_check at once) and the empty model.
ModelCheckEnter(kb, q) ==
  LET s == modelCheckSymbols(kb, q)
  IN IF Raised(s)
     THEN /\ pc' = "raised"
          /\ ret' = RaiseBool(s.exc)
          /\ stack' = <<>>
          /\ sets' = <<>>
          /\ dicts' = <<>>
     ELSE /\ pc' = "check_all"
          /\ ret' = ret
          /\ sets' = <<s.val>>
          /\ dicts' = <<EmptyDict>>
          /\ stack' = <<Frame(1, 1, s.val, EmptyDict, 1, 1)>>

\* The result of the complete assignment: lines 172-174.
baseCase(kb, q, model) ==
  LET k == evaluate(kb, model)
  IN IF Raised(k) THEN k
     ELSE IF k.val THEN evaluate(q, model)
     ELSE Return(TRUE)

\* return from the innermost activation with outcome r
ReturnWith(r) ==
  /\ ret' = r
  /\ sets' = SubSeq(sets, 1, Top.setsBase)
  /\ dicts' = SubSeq(dicts, 1, Top.dictsBase)
  /\ stack' = Caller

\* check_all with no symbols left.
CheckAllBase ==
  /\ pc = "check_all"
  /\ stack # <<>>
  /\ Top.at = "start"
  /\ sets[Top.symbols] = {}
  /\ ReturnWith(baseCase(knowledge, Query, dicts[Top.model]))
  /\ UNCHANGED <<pc, op, arg, argModel, out, knowledge, queries, results>>

\* check_all with symbols left, up to the first recursive call: the copy
\* of the set, the pop of an arbitrary element, the two extended copies of
\* the model, and the call on model_true.
CheckAllBranch ==
  /\ pc = "check_all"
  /\ stack # <<>>
  /\ Top.at = "start"
  /\ sets[Top.symbols] # {}
  /\ LET c == copy(sets, Top.symbols)
     IN \E p \in c.heap[c.ref] :
          LET sets1 == [c.heap EXCEPT ![c.ref] = @ \ {p}]
              t == copy(dicts, Top.model)
              dicts1 == [t.heap EXCEPT ![t.ref] = DictSet(@, p, TRUE)]
              f == copy(dicts1, Top.model)
              dicts2 == [f.heap EXCEPT ![f.ref] = DictSet(@, p, FALSE)]
              me == [Top EXCEPT !.at = "true", !.remaining = c.ref, !.p = p,
                                !.model_true = t.ref, !.model_false = f.ref,
                                !.trueSymbols = sets1[c.ref],
                                !.trueModel = dicts2[t.ref]]
          IN /\ sets' = sets1
             /\ dicts' = dicts2
             /\ stack' = Append(Append(Caller, me),
                                Frame(c.ref, t.ref, sets1[c.ref], dicts2[t.ref],
                                      Len(sets1), Len(dicts2)))
  /\ UNCHANGED <<pc, op, arg, argModel, out, knowledge, queries, results, ret>>

\* The first call raised: the exception leaves this activation too.
CheckAllUnwind ==
  /\ pc = "check_all"
  /\ stack # <<>>
  /\ Top.at = "true"
  /\ Raised(ret)
  /\ ReturnWith(ret)
  /\ UNCHANGED <<pc, op, arg, argModel, out, knowledge, queries, results>>

\* The first call returned False: `and` returns it, the second call is
\* not made.
CheckAllShortCircuit ==
  /\ pc = "check_all"
  /\ stack # <<>>
  /\ Top.at = "true"
  /\ ~Raised(ret)
  /\ ~ret.val
  /\ ReturnWith(ret)
  /\ UNCHANGED <<pc, op, arg, argModel, out, knowledge, queries, results>>

\* The first call returned True: the call on model_false.
CheckAllCallFalse ==
  /\ pc = "check_all"
  /\ stack # <<>>
  /\ Top.at = "true"
  /\ ~Raised(ret)
  /\ ret.val
  /\ stack' = Append(Append(Caller, [Top EXCEPT !.at = "false"]),
                     Frame(Top.remaining, Top.model_false,
                           sets[Top.remaining], dicts[Top.model_false],
                           Len(sets), Len(dicts)))
  /\ UNCHANGED <<pc, op, arg, argModel, out, knowledge, queries, results,
                 sets, dicts, ret>>

\* The second call is over: its outcome is this activation's.
CheckAllReturn ==
  /\ pc = "check_all"
  /\ stack # <<>>
  /\ Top.at = "false"
  /\ ReturnWith(ret)
  /\ UNCHANGED <<pc, op, arg, argModel, out, knowledge, queries, results>>

\* The outermost check_all is over: model_check returns its value to
\* perform_model_check, which calls model_check on the next query; an
\* exception leaves perform_model_check.
ModelCheckReturn ==
  /\ pc = "check_all"
  /\ stack = <<>>
  /\ IF Raised(ret)
     THEN /\ pc' = "raised"
          /\ UNCHANGED <<results, stack, ret>>
          /\ sets' = <<>>
          /\ dicts' = <<>>
     ELSE /\ results' = Append(results, ret.val)
          /\ IF Len(results) + 1 < Len(queries)
             THEN ModelCheckEnter(knowledge, queries[Len(results) + 2])
             ELSE /\ pc' = "done"
                  /\ sets' = <<>>
                  /\ dicts' = <<>>
                  /\ UNCHANGED <<stack, ret>>
  /\ UNCHANGED <<op, arg, argModel, out, knowledge, queries>>

\* perform_model_check(model): model is printed, then model_check is
\* called on the knowledge base and each query in turn.
perform_model_check(model, kb, qs) ==
  /\ pc = "idle"
  /\ op' = "perform_model_check"
  /\ arg' = Sentence
  /\ argModel' = model
  /\ out' = Return(FALSE)
  /\ knowledge' = kb
  /\ queries' = qs
  /\ results' = <<>>
  /\ ModelCheckEnter(kb, qs[1])

\* The steps of model_check that return values take.
CheckAll ==
  \/ CheckAllBase
  \/ CheckAllBranch
  \/ CheckAllShortCircuit
  \/ CheckAllCallFalse
  \/ CheckAllReturn
  \/ ModelCheckReturn

\* ------------------------------------------------------------ inputs
Names == {"A", "B", "C1"}

A == Symbol("A")
B == Symbol("B")
C1 == Symbol("C1")

\* The models over Names, partial ones included.
Models == UNION {[D -> BOOLEAN] : D \in SUBSET Names}

SeqsUpTo(S, n) == UNION {[1..k -> S] : k \in 0..n}

\* The sentences with operands in S.
Compound(S) ==
  {Not(x) : x \in S}
    \cup {And(c) : c \in SeqsUpTo(S, MaxArity)}
    \cup {Or(c) : c \in SeqsUpTo(S, MaxArity)}
    \cup {Implication(x, y) : x \in S, y \in S}

Leaves == {A, B, C1, And(<<>>), Or(<<>>), Sentence}
Level1 == Leaves \cup Compound(Leaves)
Operands == {A, C1, Not(A), Or(<<A, B>>), And(<<>>), Sentence}
Level2 == Compound(Operands)
Level3 == {Not(x) : x \in Level2} \cup {Implication(x, A) : x \in Level2}
Sentences == Level1 \cup Level2 \cup Level3

\* Knowledge bases: a rule, or the conjunction of two; and queries.
Rules ==
  {A, Not(A), Implication(A, B), Implication(B, C1),
   Or(<<A, Sentence>>), And(<<>>)}
KnowledgeBases == Rules \cup {And(<<r1, r2>>) : r1 \in Rules, r2 \in Rules}
Queries == {A, B, C1, Not(A), And(<<>>)}

\* ------------------------------------------------------------ calls
CallEvaluate ==
  /\ pc = "idle"
  /\ \E s \in Sentences, m \in Models :
       /\ op' = "evaluate"
       /\ arg' = s
       /\ argModel' = m
       /\ out' = evaluate(s, m)
  /\ pc' = "returned"
  /\ UNCHANGED <<knowledge, queries, results, stack, sets, dicts, ret>>

CallSymbols ==
  /\ pc = "idle"
  /\ \E s \in Sentences :
       /\ op' = "symbols"
       /\ arg' = s
       /\ argModel' = EmptyDict
       /\ out' = symbols(s)
  /\ pc' = "returned"
  /\ UNCHANGED <<knowledge, queries, results, stack, sets, dicts, ret>>

CallFormula ==
  /\ pc = "idle"
  /\ \E s \in Sentences :
       /\ op' = "formula"
       /\ arg' = s
       /\ argModel' = EmptyDict
       /\ out' = Return(formula(s))
  /\ pc' = "returned"
  /\ UNCHANGED <<knowledge, queries, results, stack, sets, dicts, ret>>

\* model_check on one knowledge base and two queries, then on their
\* conjunction.
CallModelCheck ==
  \E kb \in KnowledgeBases, q1 \in Queries, q2 \in Queries :
    perform_model_check(EmptyDict, kb, <<q1, q2, And(<<q1, q2>>)>>)

Next ==
  \/ CallEvaluate
  \/ CallSymbols
  \/ CallFormula
  \/ CallModelCheck
  \/ CheckAllUnwind
  \/ CheckAll

Spec == Init /\ [][Next]_vars

\* model_check alone; a call that is running keeps running (synchronous,
\* single-threaded).
NextModelCheck ==
  \/ CallModelCheck
  \/ CheckAllUnwind
  \/ CheckAll

FairSpec ==
  Init /\ [][NextModelCheck]_vars /\ WF_vars(CheckAll \/ CheckAllUnwind)

\* ------------------------------------------------------------ the commuting rules

Rain == Symbol("Rain")
HeavyTraffic == Symbol("HeavyTraffic")
EarlyMeeting == Symbol("EarlyMeeting")
Strike == Symbol("Strike")
Appointment == Symbol("Appointment")
RoadConstruction == Symbol("RoadConstruction")
WFH == Symbol("WorkFromHome")
Drive == Symbol("Drive")
PublicTransport == Symbol("PublicTransport")

rule1 == Implication(Or(<<Rain, EarlyMeeting>>), WFH)
rule2 == Implication(And(<<Appointment, Not(EarlyMeeting)>>), Drive)
rule3 == Implication(And(<<Not(Strike), Not(Rain)>>), PublicTransport)
knowledge_base == And(<<rule1, rule2, rule3>>)

query_wfh == WFH
query_drive == Drive
query_public_transport == PublicTransport

\* A scenario dict with the five keys all four scenarios have.
Scenario(rain, traffic, meeting, strike, appointment) ==
  [n \in {"Rain", "HeavyTraffic", "EarlyMeeting", "Strike",
          "Appointment"} |->
     CASE n = "Rain" -> rain
       [] n = "HeavyTraffic" -> traffic
       [] n = "EarlyMeeting" -> meeting
       [] n = "Strike" -> strike
       [] n = "Appointment" -> appointment]

scenario1 == Scenario(TRUE, TRUE, FALSE, FALSE, FALSE)
scenario2 == Scenario(FALSE, FALSE, FALSE, TRUE, FALSE)
scenario3 == Scenario(FALSE, FALSE, FALSE, FALSE, FALSE)
scenario4 == DictSet(Scenario(FALSE, FALSE, FALSE, FALSE, TRUE),
                     "RoadConstruction", FALSE)

\* The module-level calls of perform_model_check; scenario2 and scenario3
\* run as scenario1 does (the same knowledge base and queries).
DemoScenarios == {scenario1, scenario4}

RunScenario ==
  \E model \in DemoScenarios :
    perform_model_check(model, knowledge_base,
                        <<query_wfh, query_drive, query_public_transport>>)

NextDemo ==
  \/ RunScenario
  \/ CheckAll

SpecDemo == Init /\ [][NextDemo]_vars

\* ------------------------------------------------------------ reference notions
\* s is built from Symbol, Not, And, Or and Implication alone.
RECURSIVE IsConcrete(_)
IsConcrete(s) ==
  /\ s.tag # "Sentence"
  /\ \A i \in 1..Len(s.args) : IsConcrete(s.args[i])

\* An And or an Or with no children occurs in s.
RECURSIVE HasEmptyJunction(_)
HasEmptyJunction(s) ==
  \/ s.tag \in {"And", "Or"} /\ s.args = <<>>
  \/ \E i \in 1..Len(s.args) : HasEmptyJunction(s.args[i])

\* The names of the symbols occurring in s.
RECURSIVE Occurring(_)
Occurring(s) ==
  IF s.tag = "Symbol" THEN {s.name}
  ELSE UNION {Occurring(s.args[i]) : i \in 1..Len(s.args)}

\* The truth-functional value of a concrete s under m.
RECURSIVE Truth(_, _)
Truth(s, m) ==
  CASE s.tag = "Symbol" -> m[s.name]
    [] s.tag = "Not" -> ~Truth(s.args[1], m)
    [] s.tag = "And" -> \A i \in 1..Len(s.args) : Truth(s.args[i], m)
    [] s.tag = "Or" -> \E i \in 1..Len(s.args) : Truth(s.args[i], m)
    [] s.tag = "Implication" -> ~Truth(s.args[1], m) \/ Truth(s.args[2], m)
    [] OTHER -> FALSE

Assignments(names) == [names -> BOOLEAN]

\* Every assignment over the symbols of both that satisfies kb satisfies q.
Entails(kb, q) ==
  \A m \in Assignments(Occurring(kb) \cup Occurring(q)) :
    Truth(kb, m) => Truth(q, m)

InPerform == op = "perform_model_check"
\* The i-th model_check call of perform_model_check is over.
Returned(i) == i <= Len(results)
RaisedAt(i) == pc = "raised" /\ i = Len(results) + 1

\* ------------------------------------------------------------ claims

\* C1: model_check(K, Q) returns true iff every assignment over the symbols
\* of K and Q that satisfies K satisfies Q, for all K and Q built from the
\* five variants.
C1_ModelCheckIsEntailment ==
  InPerform =>
    \A i \in 1..Len(queries) :
      (IsConcrete(knowledge) /\ IsConcrete(queries[i])) =>
        /\ ~RaisedAt(i)
        /\ Returned(i) => results[i] = Entails(knowledge, queries[i])

\* C2: with scenario1's facts model_check answers WorkFromHome true, Drive
\* false and PublicTransport false; with scenario4's facts it answers
\* Drive true.
C2_ScenarioAnswers ==
  InPerform =>
    /\ (argModel = scenario1 /\ Returned(1)) => results[1] = TRUE
    /\ (argModel = scenario1 /\ Returned(2)) => results[2] = FALSE
    /\ (argModel = scenario1 /\ Returned(3)) => results[3] = FALSE
    /\ (argModel = scenario4 /\ Returned(2)) => results[2] = TRUE

\* C3: symbols() of an And or Or with no children returns the empty set,
\* and model_check on sentences that contain one returns a boolean.
C3_EmptyJunctionSymbols ==
  /\ (pc = "returned" /\ op = "symbols" /\ arg \in {And(<<>>), Or(<<>>)})
       => out = Return({})
  /\ InPerform =>
       \A i \in 1..Len(queries) :
         (/\ IsConcrete(knowledge)
          /\ IsConcrete(queries[i])
          /\ HasEmptyJunction(knowledge) \/ HasEmptyJunction(queries[i]))
           => ~RaisedAt(i)

\* C4: evaluate, formula and symbols on an instance of the base class all
\* end in an error.
C4_BaseMethodsFail ==
  (pc = "returned" /\ arg = Sentence /\ op \in {"evaluate", "formula", "symbols"})
    => Raised(out)

\* C5: evaluate on a sentence of the five variants under a model binding
\* all its symbols returns its truth-functional value and raises nothing.
C5_EvaluateIsTruth ==
  (/\ pc = "returned"
   /\ op = "evaluate"
   /\ IsConcrete(arg)
   /\ Occurring(arg) \subseteq DOMAIN argModel)
    => out = Return(Truth(arg, argModel))

C5_Witness ==
  /\ pc = "returned"
  /\ op = "evaluate"
  /\ arg.tag = "Implication"
  /\ IsConcrete(arg)
  /\ Cardinality(Occurring(arg)) = 2
  /\ Occurring(arg) \subseteq DOMAIN argModel
  /\ ~argModel[arg.args[1].name]
  /\ out = Return(TRUE)

\* C6: when model_check(K, Q1) and model_check(K, Q2) return true, so does
\* model_check(K, And(Q1, Q2)).
C6_Monotone ==
  (/\ InPerform
   /\ Len(queries) = 3
   /\ queries[3] = And(<<queries[1], queries[2]>>)
   /\ Returned(2)
   /\ results[1]
   /\ results[2])
    => /\ ~RaisedAt(3)
       /\ Returned(3) => results[3]

C6_Witness ==
  /\ InPerform
  /\ pc = "done"
  /\ results = <<TRUE, TRUE, TRUE>>
  /\ Occurring(queries[1]) # Occurring(queries[2])
  /\ ~(Occurring(queries[1]) \subseteq Occurring(knowledge))
  /\ ~(Occurring(queries[2]) \subseteq Occurring(knowledge))

\* The number of c among the first k characters of s.
RECURSIVE Count(_, _, _)
Count(s, c, k) ==
  IF k = 0 THEN 0 ELSE Count(s, c, k - 1) + (IF s[k] = c THEN 1 ELSE 0)

\* s starts with "(" and ends with ")" and is balanced in between.
OuterBalanced(s) ==
  /\ Len(s) >= 2
  /\ s[1] = "("
  /\ s[Len(s)] = ")"
  /\ LET inner == SubSeq(s, 2, Len(s) - 1)
     IN /\ Count(inner, "(", Len(inner)) = Count(inner, ")", Len(inner))
        /\ \A k \in 1..Len(inner) : Count(inner, ")", k) <= Count(inner, "(", k)

\* s renders as a single symbol: a Symbol, or an And / Or of one child
\* that does.
RECURSIVE RendersSymbol(_)
RendersSymbol(s) ==
  \/ s.tag = "Symbol"
  \/ s.tag \in {"And", "Or"} /\ Len(s.args) = 1 /\ RendersSymbol(s.args[1])

\* The rendering C7 describes.
RECURSIVE Rendering(_)
Wrapped(s) ==
  LET r == Rendering(s)
  IN IF r = <<>> \/ RendersSymbol(s) \/ OuterBalanced(r) THEN r
     ELSE <<"(">> \o r \o <<")">>

Rendering(s) ==
  CASE s.tag = "Symbol" -> chars(s.name)
    [] s.tag = "Not" -> <<NotSign>> \o Wrapped(s.args[1])
    [] s.tag \in {"And", "Or"} ->
         IF Len(s.args) = 1 THEN Rendering(s.args[1])
         ELSE join(IF s.tag = "And" THEN AndSep ELSE OrSep,
                   [i \in 1..Len(s.args) |-> Wrapped(s.args[i])])
    [] s.tag = "Implication" ->
         Wrapped(s.args[1]) \o ImpliesSep \o Wrapped(s.args[2])
    [] OTHER -> <<>>

\* C7: formula() wraps a sub-expression under a connective in parentheses
\* unless its rendering is empty, is a single symbol whatever its name, or
\* is already parenthesized and balanced; And / Or of one child render the
\* child alone.
C7_FormulaParentheses ==
  (pc = "returned" /\ op = "formula") => out = Return(Rendering(arg))

\* The outcome of evaluating every complete assignment, none skipped.
AllLeaves(kb, q) ==
  {baseCase(kb, q, m) : m \in Assignments(modelCheckSymbols(kb, q).val)}
SomeLeafRaises(kb, q) == \E r \in AllLeaves(kb, q) : Raised(r)
EveryLeafTrue(kb, q) == \A r \in AllLeaves(kb, q) : r.val

\* C8: the value of model_check is the same for every order in which
\* check_all picks symbols, and is the one that evaluating all complete
\* assignments without the short-circuit gives.
C8_OrderAndShortCircuit ==
  InPerform =>
    \A i \in 1..Len(queries) :
      ~Raised(modelCheckSymbols(knowledge, queries[i])) =>
        /\ RaisedAt(i) => SomeLeafRaises(knowledge, queries[i])
        /\ Returned(i) =>
             /\ ~SomeLeafRaises(knowledge, queries[i])
             /\ results[i] = EveryLeafTrue(knowledge, queries[i])

\* C9: a call of check_all leaves the set and the model it received as
\* they were, and its second recursive call receives the same remaining
\* symbols as the first and the same model but for the value of p.
C9_ArgumentsUnchanged ==
  \A i \in 1..Len(stack) :
    LET f == stack[i]
    IN /\ sets[f.symbols] = f.symbols0
       /\ dicts[f.model] = f.model0
       /\ f.at \in {"true", "false"} =>
            /\ f.p \in f.symbols0
            /\ f.trueSymbols = f.symbols0 \ {f.p}
            /\ f.trueModel = DictSet(f.model0, f.p, TRUE)
            /\ sets[f.remaining] = f.trueSymbols
            /\ dicts[f.model_true] = f.trueModel
            /\ dicts[f.model_false] = DictSet(f.model0, f.p, FALSE)
       /\ (f.at = "true" /\ i < Len(stack)) =>
            /\ stack[i + 1].symbols0 = f.trueSymbols
            /\ stack[i + 1].model0 = f.trueModel
       /\ (f.at = "false" /\ i < Len(stack)) =>
            /\ stack[i + 1].symbols0 = f.trueSymbols
            /\ stack[i + 1].model0 = DictSet(f.trueModel, f.p, FALSE)

C9_Witness ==
  /\ Len(stack) >= 3
  /\ stack[1].at = "false"
  /\ stack[2].at = "false"
  /\ Top.at = "start"
  /\ sets[Top.symbols] # {}

\* The symbols model_check enumerates for the query in hand.
AllSymbols == Occurring(knowledge) \cup Occurring(Query)

C10_Partition ==
  /\ \A i \in 1..Len(stack) :
       LET bound == DOMAIN dicts[stack[i].model]
           remaining == sets[stack[i].symbols]
       IN /\ bound \cap remaining = {}
          /\ bound \cup remaining = AllSymbols
          /\ Cardinality(bound) = i - 1
          /\ (stack[i].at = "start" /\ remaining = {}) =>
               /\ i = Cardinality(AllSymbols) + 1
               /\ Occurring(knowledge) \cup Occurring(Query) \subseteq bound
  /\ ret.exc # NotInModel

\* C10: in every call of check_all the bound symbols and the remaining
\* ones partition symbols(K) \cup symbols(Q), so the base case is reached
\* at depth |symbols(K) \cup symbols(Q)| with every symbol bound, no
\* unbound-symbol error is raised, and model_check terminates.
C10_PartitionAndTermination ==
  /\ []C10_Partition
  /\ (pc = "check_all") ~> (pc \in {"done", "raised"})

C10_Witness ==
  /\ Len(stack) = 4
  /\ Top.at = "start"
  /\ sets[Top.symbols] = {}
  /\ Cardinality(DOMAIN dicts[Top.model]) = 3
  /\ Len(results) = 2

====
